---- MODULE Spec2Model ----
(***************************************************************************)
(* A model of the QoS object graph of vyatta_policy_qos_vci: the Interface *)
(* class (interface.py) with its construction from a raw configuration     *)
(* subtree, its lazily cached ifindex and its command synthesis, over a    *)
(* shared policy registry and ingress-map registry.                        *)
(*                                                                         *)
(* Python dictionaries are records; a key that may be absent is a sequence *)
(* of length 0 (absent) or 1 (present).  A name that is absent (a .get     *)
(* that returns None) is the string NONE.  An exception that leaves a      *)
(* method is the `err` field of the result.                                *)
(***************************************************************************)
EXTENDS Integers, Sequences, FiniteSets, TLC

\* heap:        the Interface objects created so far, by heap id (1, 2, ...)
\* polIfs:      Policy._interfaces of every policy of the registry (heap ids)
\* mapBindings: the binding list of every ingress-map of the registry
\* sysfs:       the text of /sys/class/net/<name>/ifindex, NONE when the
\*              file cannot be opened
\* ret:         what the last call returned to its caller
\* qos:         the QosConfig object and how far its __init__ has got
\* readers:     the threads that read one built Interface at the same time,
\*              each with its position in the ifindex property
\* opm:         the last call of a function of qos_op_mode.py: its name, its
\*              arguments and what it returned
VARIABLES heap, polIfs, mapBindings, sysfs, ret, qos, readers, opm

vars == <<heap, polIfs, mapBindings, sysfs, ret, qos, readers, opm>>

\* Threads reading an Interface concurrently.
NumReaders == 2

\* Longest vif list / vlan list of a configuration subtree.
MaxVlans == 2

NONE == "None"

----------------------------------------------------------------------------
(* The registries an Interface is built against.                           *)

\* A class's profile reference: a global profile or a profile local to the
\* policy.
GlobalRef(n) == [scope |-> "global", name |-> n]
LocalRef(n) == [scope |-> "local", name |-> n]

\* The Policy Registry (QosConfig._policies): name -> Policy.  A Policy has
\* an ordered class list (one profile reference per class), its own local
\* profiles and a frame overhead.
Policies ==
  [ P0 |-> [classes |-> <<>>, locals |-> <<>>, overhead |-> 20],
    P1 |-> [classes |-> <<LocalRef("x")>>, locals |-> <<"x">>, overhead |-> 24],
    P2 |-> [classes |-> <<GlobalRef("g"), LocalRef("y")>>, locals |-> <<"y">>,
            overhead |-> 22] ]

PolicyNames == DOMAIN Policies

\* The Ingress-Map Registry: the names of the ingress-maps that exist.
IngressMaps == {"M1"}

\* Policy.max_pipes(current_max)
PolicyMaxPipes(p, current_max) ==
  IF Len(Policies[p].classes) > current_max THEN Len(Policies[p].classes)
  ELSE current_max

----------------------------------------------------------------------------
(* Raw configuration subtrees (if_dict).                                   *)

\* A policy-attachment sub-object: the '<namespace>:qos' name and the
\* 'vyatta-policy-qos-v1:ingress-map' name, NONE for a key that is absent.
PolDict(q, m) == [qos |-> q, imap |-> m]

Opt(S) == {<<>>} \cup {<<x>> : x \in S}

\* The VLAN tag of the k-th entry of a vif or vlan list (list keys are
\* unique).
TagOf(k) == 10 * k

\* Trunk attachments, under the standard key or the switch-group's
\* port-parameters.
TrunkPolDicts ==
  { PolDict(NONE, NONE), PolDict("P0", "nomap"), PolDict("P1", NONE),
    PolDict("P2", "M1") }

\* The policy part of a vif entry / vlan entry that lets construction go on
\* to the next entry, and the ones that raise.
VifGoOn == { <<PolDict(NONE, NONE)>>, <<PolDict("P1", NONE)>>, <<PolDict("P2", "M1")>> }
VlanGoOn == { <<PolDict(NONE, NONE)>>, <<PolDict("P1", "nomap")>>,
              <<PolDict("P2", "M1")>>, <<PolDict(NONE, "M1")>> }
Raising == { <<>>, <<PolDict("missing", NONE)>> }

\* Lists of at most MaxVlans entries in which an entry that stops
\* construction, if any, is the last one (the entries after it are never
\* read).
RECURSIVE ListsOf(_, _)
ListsOf(goOn, n) ==
  IF n = 0 THEN {<<>>}
  ELSE LET shorter == ListsOf(goOn, n - 1)
       IN shorter \cup
          { Append(l, [tag |-> TagOf(Len(l) + 1), pol |-> p]) :
              l \in { s \in shorter : Len(s) = n - 1 /\
                                      \A i \in 1..Len(s) : s[i].pol \in goOn },
              p \in goOn \cup Raising }

VifLists == ListsOf(VifGoOn, MaxVlans)
VlanLists == ListsOf(VlanGoOn, MaxVlans)

IfDict(n, std, sw, vif) == [name |-> n, std |-> std, sw |-> sw, vif |-> vif]
PortParams(pol, vlans) == [pol |-> pol, vlans |-> vlans]
SwitchGroup(pp) == [pp |-> pp]

\* A switch-group that the standard layout must never read.
DecoySwitch == <<SwitchGroup(<<PortParams(<<PolDict("P1", "M1")>>,
                   <<<<[tag |-> TagOf(1), pol |-> <<PolDict("P1", NONE)>>]>>>>)>>)>>

\* Standard layout: the '<policy_namespace>:policy' key is present.
StandardDicts(n) ==
  { IfDict(n, <<t>>, <<>>, v) : t \in TrunkPolDicts, v \in Opt(VifLists) }
  \cup { IfDict(n, <<PolDict("missing", NONE)>>, <<>>, <<>>),
         IfDict(n, <<PolDict("P2", NONE)>>, DecoySwitch, <<>>) }

\* Hardware-switch layout: no standard key, a switch-group.
SwitchDicts(n) ==
  { IfDict(n, <<>>, <<SwitchGroup(<<>>)>>, <<>>) }
  \cup { IfDict(n, <<>>, <<SwitchGroup(<<PortParams(p, v)>>)>>, <<>>) :
           p \in {<<>>, <<PolDict("P1", "M1")>>},
           v \in Opt(VlanLists) }
  \cup { IfDict(n, <<>>,
                <<SwitchGroup(<<PortParams(<<PolDict("P1", NONE)>>, <<v>>)>>)>>,
                <<<<[tag |-> TagOf(1), pol |-> <<PolDict("P2", NONE)>>]>>>>) :
           v \in { l \in VlanLists : Len(l) = 1 } }

\* Neither the standard key nor a switch-group.
BareDicts(n) == { IfDict(n, <<>>, <<>>, <<>>) }

\* Trunk only.
TrunkDicts(n) ==
  { IfDict(n, <<t>>, <<>>, <<>>) :
      t \in {PolDict("P1", NONE), PolDict("P2", "M1"), PolDict("missing", NONE)} }

\* The interface entries of a configuration: dp0p1 with any layout, dp0vhost1
\* with a trunk attachment only.
IfInputs ==
  { <<"dataplane", d>> : d \in StandardDicts("dp0p1") \cup SwitchDicts("dp0p1")
                                \cup BareDicts("dp0p1") }
  \cup { <<"vhost", d>> : d \in TrunkDicts("dp0vhost1") }

IfNames == {"dp0p1", "dp0vhost1"}

----------------------------------------------------------------------------
(* Interface.__init__                                                      *)

Subport(id, vlan_id, policy) == [id |-> id, vlan_id |-> vlan_id, policy |-> policy]
IngressMapBinding(self, vlan_id, map) ==
  [interface |-> self, vlan_id |-> vlan_id, map |-> map]

\* What __init__ has built so far: the fields of the new object, the two
\* registries' back-references, and the exception that ended it, if any.
Start(pI, mB) ==
  [subports |-> <<>>, policies |-> <<>>, bindings |-> <<>>,
   polIfs |-> pI, mapBindings |-> mB, next_id |-> 1,
   err |-> "ok", errkey |-> NONE]

Raise(st, type, key) == [st EXCEPT !.err = type, !.errkey = key]

\* Policy.add_interface(interface)
AddInterface(pI, p, self) == [pI EXCEPT ![p] = Append(@, self)]

\* IngressMap.add_binding(binding)
AddBinding(mB, m, binding) == [mB EXCEPT ![m] = Append(@, binding)]

\* TrunkResolve trying the switch-group before the standard key.
TrunkResolveSwitchFirst(d) ==
  IF d.sw /= <<>> /\ d.sw[1].pp /= <<>> /\ d.sw[1].pp[1].pol /= <<>>
  THEN [ipd |-> d.sw[1].pp[1].pol, pp |-> d.sw[1].pp]
  ELSE IF d.std /= <<>> THEN [ipd |-> d.std, pp |-> <<>>]
  ELSE IF d.sw = <<>> THEN [ipd |-> <<>>, pp |-> <<>>]
  ELSE [ipd |-> <<PolDict(NONE, NONE)>>, pp |-> d.sw[1].pp]

\* The trunk's policy dictionary and the switch-group's port-parameters.
\* if_policy_dict is <<>> for None.  When the switch-group lacks
\* port-parameters or its policy key, if_policy_dict stays bound to the
\* dictionary read last, which carries neither a qos nor an ingress-map key.
TrunkResolve(d) ==
  IF d.std /= <<>> THEN [ipd |-> d.std, pp |-> <<>>]
  ELSE IF d.sw = <<>> THEN [ipd |-> <<>>, pp |-> <<>>]
  ELSE IF d.sw[1].pp = <<>> THEN [ipd |-> <<PolDict(NONE, NONE)>>, pp |-> <<>>]
  ELSE IF d.sw[1].pp[1].pol = <<>>
       THEN [ipd |-> <<PolDict(NONE, NONE)>>, pp |-> d.sw[1].pp]
       ELSE [ipd |-> d.sw[1].pp[1].pol, pp |-> d.sw[1].pp]

\* CrossLink without the call of policy.add_interface.
CrossLinkForwardOnly(st, self, p) == [st EXCEPT !.policies = Append(@, p)]

\* self._policies.append(policy); policy.add_interface(self)
CrossLink(st, self, p) ==
  [st EXCEPT !.policies = Append(@, p),
             !.polIfs = AddInterface(@, p, self)]

\* The trunk's policy: subport 0 when a policy is named.
TrunkPolicy(st, self, ipd) ==
  IF ipd = <<>> THEN Raise(st, "AttributeError", NONE)
  ELSE LET name == ipd[1].qos
       IN IF name = NONE THEN st
          ELSE IF name \notin PolicyNames THEN Raise(st, "KeyError", name)
          ELSE CrossLink([st EXCEPT !.subports = Append(@, Subport(0, 0, name))],
                         self, name)

\* BindIngressMap without the call of ingress_map.add_binding.
BindIngressMapForwardOnly(st, self, vlan_id, pd) ==
  IF pd.imap = NONE THEN st
  ELSE IF pd.imap \notin IngressMaps THEN st
  ELSE [st EXCEPT !.bindings =
                    Append(@, IngressMapBinding(self, vlan_id, pd.imap))]

\* try: the ingress-map binding of if_policy_dict; except KeyError: pass
BindIngressMap(st, self, vlan_id, pd) ==
  IF pd.imap = NONE THEN st
  ELSE IF pd.imap \notin IngressMaps THEN st
  ELSE LET binding == IngressMapBinding(self, vlan_id, pd.imap)
       IN [st EXCEPT !.bindings = Append(@, binding),
                     !.mapBindings = AddBinding(@, pd.imap, binding)]

\* One iteration of the vif loop.
VifStep(st, self, vif, subport_id) ==
  IF vif.pol = <<>> THEN Raise(st, "KeyError", "policy")
  ELSE LET name == vif.pol[1].qos
       IN IF name /= NONE /\ name \notin PolicyNames
          THEN Raise(st, "KeyError", name)
          ELSE LET s1 == [st EXCEPT !.subports =
                             Append(@, Subport(subport_id, vif.tag, name))]
               IN IF name /= NONE THEN CrossLink(s1, self, name) ELSE s1

RECURSIVE VifLoop(_, _, _, _)
VifLoop(st, self, vif_list, k) ==
  IF k > Len(vif_list) \/ st.err /= "ok" THEN st
  ELSE VifLoop(VifStep(st, self, vif_list[k], k), self, vif_list, k + 1)

\* One iteration of the vlan loop.
VlanStep(st, self, vlan) ==
  IF vlan.pol = <<>> THEN Raise(st, "KeyError", "policy")
  ELSE LET name == vlan.pol[1].qos
       IN IF name /= NONE /\ name \notin PolicyNames
          THEN Raise(st, "KeyError", name)
          ELSE LET s1 == IF name /= NONE
                         THEN CrossLink(
                                [st EXCEPT !.subports =
                                     Append(@, Subport(st.next_id, vlan.tag, name)),
                                   !.next_id = @ + 1],
                                self, name)
                         ELSE st
               IN BindIngressMap(s1, self, vlan.tag, vlan.pol[1])

RECURSIVE VlanLoop(_, _, _, _)
VlanLoop(st, self, vlan_list, k) ==
  IF k > Len(vlan_list) \/ st.err /= "ok" THEN st
  ELSE VlanLoop(VlanStep(st, self, vlan_list[k]), self, vlan_list, k + 1)

\* vlan_list: port-parameters -> vlan-parameters -> qos-parameters -> vlan,
\* <<>> when there are no port-parameters or a key of the path is absent.
VlanListOf(pp) == IF pp = <<>> THEN <<>> ELSE pp[1].vlans

----------------------------------------------------------------------------
(* The profile index.                                                      *)

GlobalKey(n) == [scope |-> "global", tag |-> 0, name |-> n]
VlanKey(vlan_id, n) == [scope |-> "vlan", tag |-> vlan_id, name |-> n]

EmptyIndex == [k \in {} |-> 0]

\* Interface.profile_index_get(key): -1 stands for None.
ProfileIndexGet(index, key) == IF key \in DOMAIN index THEN index[key] ELSE -1

\* Interface.profile_index_set(key, value)
ProfileIndexSet(index, key, value) ==
  [k \in DOMAIN index \cup {key} |-> IF k = key THEN value ELSE index[k]]

\* Interface.profile_index_size
ProfileIndexSize(index) == Cardinality(DOMAIN index)

\* Registers a key with the next free index unless it has one.
Register(index, key) ==
  IF ProfileIndexGet(index, key) /= -1 THEN index
  ELSE ProfileIndexSet(index, key, ProfileIndexSize(index))

RECURSIVE RegisterAll(_, _, _)
RegisterAll(index, keys, k) ==
  IF k > Len(keys) THEN index
  ELSE RegisterAll(Register(index, keys[k]), keys, k + 1)

\* The global profiles a policy's classes refer to, in class order.
RECURSIVE GlobalKeysOf(_, _)
GlobalKeysOf(classes, k) ==
  IF k > Len(classes) THEN <<>>
  ELSE IF classes[k].scope = "global"
       THEN <<GlobalKey(classes[k].name)>> \o GlobalKeysOf(classes, k + 1)
       ELSE GlobalKeysOf(classes, k + 1)

LocalKeysOf(locals, vlan_id) == [k \in 1..Len(locals) |-> VlanKey(vlan_id, locals[k])]

\* Subport.build_profile_index(interface): the global profiles the policy
\* refers to, then the policy's local profiles under the subport's VLAN tag.
BuildProfileIndex(index, subport) ==
  IF subport.policy = NONE THEN index
  ELSE LET pol == Policies[subport.policy]
       IN RegisterAll(RegisterAll(index, GlobalKeysOf(pol.classes, 1), 1),
                      LocalKeysOf(pol.locals, subport.vlan_id), 1)

\* BuildAll taking the subports last to first.
RECURSIVE BuildAllReversed(_, _, _)
BuildAllReversed(index, subports, k) ==
  IF k > Len(subports) THEN index
  ELSE BuildProfileIndex(BuildAllReversed(index, subports, k + 1), subports[k])

RECURSIVE BuildAll(_, _, _)
BuildAll(index, subports, k) ==
  IF k > Len(subports) THEN index
  ELSE BuildAll(BuildProfileIndex(index, subports[k]), subports, k + 1)

----------------------------------------------------------------------------

\* Interface.__init__(if_type, if_dict, qos_policy_dict, ingress_map_dict),
\* as the object with heap id `self`.
Construct(self, if_type, d, pI, mB) ==
  LET tr == TrunkResolve(d)
      s1 == TrunkPolicy(Start(pI, mB), self, tr.ipd)
      s2 == IF s1.err = "ok" THEN BindIngressMap(s1, self, 0, tr.ipd[1]) ELSE s1
      s3 == IF s2.err = "ok" /\ d.vif /= <<>>
            THEN VifLoop(s2, self, d.vif[1], 1) ELSE s2
      vl == VlanListOf(tr.pp)
      s4 == IF s3.err = "ok" /\ vl /= <<>>
            THEN VlanLoop([s3 EXCEPT !.next_id = 1], self, vl[1], 1) ELSE s3
  IN [obj |-> [name |-> d.name, if_type |-> if_type, if_dict |-> d,
               ifindex |-> NONE,
               subports |-> s4.subports,
               ingress_map_bindings |-> s4.bindings,
               policies |-> s4.policies,
               profile_index |-> IF s4.err = "ok"
                                 THEN BuildAll(EmptyIndex, s4.subports, 1)
                                 ELSE EmptyIndex,
               err |-> s4.err, errkey |-> s4.errkey],
      polIfs |-> s4.polIfs,
      mapBindings |-> s4.mapBindings]

----------------------------------------------------------------------------
(* Interface.ifindex and Interface.commands                                *)

\* The texts the sysfs file of an interface can hold; NONE: no such file.
SysfsTexts == {NONE, "3\n", "4\n"}

\* The text of the file kept as it was read.
StripNewlineNot(text) == text

\* if_file.read().replace('\n', '')
StripNewline(text) ==
  CASE text = "3\n" -> "3"
    [] text = "4\n" -> "4"
    [] OTHER -> text

\* The try block of the ifindex property: self._ifindex after it.  An
\* OSError of open() is caught and leaves self._ifindex as it was.
ReadIfindexFile(obj, fs) ==
  IF fs[obj.name] = NONE THEN obj.ifindex ELSE StripNewline(fs[obj.name])

\* The ifindex property without the test of self._ifindex.
IfindexOfNoCache(obj, fs) == ReadIfindexFile(obj, fs)

\* The ifindex property: the cached value, else the text of the sysfs file
\* without its newline, cached; None when the file cannot be opened.
IfindexOf(obj, fs) ==
  IF obj.ifindex /= NONE THEN obj.ifindex ELSE ReadIfindexFile(obj, fs)

\* Whether the access opens the sysfs file.
Looked(obj) == obj.ifindex = NONE

\* The ifindex property's write to self._ifindex.
IfindexCached(obj, fs) == [obj EXCEPT !.ifindex = IfindexOf(obj, fs)]

\* max_pipes after the first k subports (commands(), the first loop).
RECURSIVE MaxPipes(_, _)
MaxPipes(subports, k) ==
  IF k = 0 THEN 0
  ELSE IF subports[k].policy /= NONE
       THEN PolicyMaxPipes(subports[k].policy, MaxPipes(subports, k - 1))
       ELSE MaxPipes(subports, k - 1)

\* Overhead without the test for subport id 0.
RECURSIVE OverheadAnySubport(_, _)
OverheadAnySubport(subports, k) ==
  IF k = 0 THEN <<>>
  ELSE IF subports[k].policy /= NONE
       THEN <<Policies[subports[k].policy].overhead>>
       ELSE OverheadAnySubport(subports, k - 1)

\* The local `overhead` after the first k subports: <<>> while unbound.
RECURSIVE Overhead(_, _)
Overhead(subports, k) ==
  IF k = 0 THEN <<>>
  ELSE IF subports[k].policy /= NONE /\ subports[k].id = 0
       THEN <<Policies[subports[k].policy].overhead>>
       ELSE Overhead(subports, k - 1)

PortCmd(ifx, max_subports, max_pipes, profiles, overhead) ==
  [kind |-> "port", ifindex |-> ifx, subports |-> max_subports,
   pipes |-> max_pipes, profiles |-> profiles, overhead |-> overhead]

EnableCmd(ifx) == [kind |-> "enable", ifindex |-> ifx]

PipeCmd(ifx, subport_id, pipe, profile) ==
  [kind |-> "pipe", ifindex |-> ifx, subport |-> subport_id, pipe |-> pipe,
   profile |-> profile]

\* The profile-index key of a class's profile on a subport.
ClassKey(ref, vlan_id) ==
  IF ref.scope = "global" THEN GlobalKey(ref.name) ELSE VlanKey(vlan_id, ref.name)

\* Subport.commands(interface): nothing without a policy, else one pipe
\* command per class, carrying the index of the class's profile.
SubportCommands(obj, ifx, subport) ==
  IF subport.policy = NONE THEN <<>>
  ELSE LET classes == Policies[subport.policy].classes
       IN [c \in 1..Len(classes) |->
             PipeCmd(ifx, subport.id, c - 1,
                     ProfileIndexGet(obj.profile_index,
                                     ClassKey(classes[c], subport.vlan_id)))]

RECURSIVE AllSubportCommands(_, _, _)
AllSubportCommands(obj, ifx, k) ==
  IF k > Len(obj.subports) THEN <<>>
  ELSE SubportCommands(obj, ifx, obj.subports[k])
         \o AllSubportCommands(obj, ifx, k + 1)

\* Commands with the enable command appended whatever max_pipes is.
CommandsEnableAlways(obj, ifx) ==
  LET n == Len(obj.subports)
      max_pipes == MaxPipes(obj.subports, n)
      overhead == Overhead(obj.subports, n)
  IN IF max_pipes /= 0 /\ overhead = <<>>
     THEN [err |-> "UnboundLocalError", list |-> <<>>]
     ELSE [err |-> "ok",
           list |-> (IF max_pipes /= 0
                     THEN <<PortCmd(ifx, n, max_pipes,
                                    ProfileIndexSize(obj.profile_index),
                                    overhead[1])>>
                     ELSE <<>>)
                    \o AllSubportCommands(obj, ifx, 1)
                    \o <<EnableCmd(ifx)>>]

\* Interface.commands(): the list returned, or the exception raised when the
\* header reads `overhead` before any assignment.
Commands(obj, ifx) ==
  LET n == Len(obj.subports)
      max_pipes == MaxPipes(obj.subports, n)
      overhead == Overhead(obj.subports, n)
  IN IF max_pipes /= 0 /\ overhead = <<>>
     THEN [err |-> "UnboundLocalError", list |-> <<>>]
     ELSE [err |-> "ok",
           list |-> (IF max_pipes /= 0
                     THEN <<PortCmd(ifx, n, max_pipes,
                                    ProfileIndexSize(obj.profile_index),
                                    overhead[1])>>
                     ELSE <<>>)
                    \o AllSubportCommands(obj, ifx, 1)
                    \o (IF max_pipes /= 0 THEN <<EnableCmd(ifx)>> ELSE <<>>)]

----------------------------------------------------------------------------
(* QosConfig (qos_config.py): the configuration snapshot and the           *)
(* registries.  Action, MarkMap, Profile and Policy objects are their      *)
(* names; a global profile carries the id of its position.                 *)

QosDict(mark_map, profile, name) ==
  [mark_map |-> mark_map, profile |-> profile, name |-> name]
PolicySection(action, q) == [action |-> action, qos |-> q]
ConfigDict(policy, interfaces) == [policy |-> policy, interfaces |-> interfaces]

FullQos == QosDict(<<<<"MM1">>>>, <<<<"g">>>>, <<<<"P0", "P1", "P2">>>>)

\* 'vyatta-policy-v1:policy': absent; without the qos key; with an empty
\* qos dictionary; with action groups, a mark-map, a profile and policies.
PolicySections ==
  { <<>>,
    <<PolicySection(<<>>, <<>>)>>,
    <<PolicySection(<<>>, <<QosDict(<<>>, <<>>, <<>>)>>)>>,
    <<PolicySection(<<<<"A1", "A2">>>>, <<FullQos>>)>> }

\* 'vyatta-interfaces-v1:interfaces': absent; with an empty interface list;
\* with one and with two interface entries, each <<if_type, subtree>>.
InterfaceSections ==
  { <<>>,
    << <<>> >>,
    << << <<"dataplane", IfDict("dp0p1", <<PolDict("P1", NONE)>>, <<>>, <<>>)>> >> >>,
    << << <<"dataplane", IfDict("dp0p1", <<PolDict("P2", NONE)>>, <<>>, <<>>)>>,
          <<"vhost", IfDict("dp0vhost1", <<PolDict("P1", NONE)>>, <<>>, <<>>)>> >> >> }

ConfigDicts ==
  { ConfigDict(p, i) : p \in PolicySections, i \in InterfaceSections }

NoQos == [pc |-> "none", cfg |-> ConfigDict(<<>>, <<>>),
          action_groups |-> {}, mark_maps |-> {}, global_profiles |-> {},
          policies |-> {}, interfaces |-> <<>>, err |-> "ok"]

\* The names of a list that .get() may not find.
NamesOf(opt) == IF opt = <<>> THEN {} ELSE {opt[1][k] : k \in 1..Len(opt[1])}

\* _process_qos, the profile loop: Profile(profile_id, profile_dict, None)
ProfilesOf(opt) ==
  IF opt = <<>> THEN {}
  ELSE {[name |-> opt[1][k], id |-> k - 1] : k \in 1..Len(opt[1])}

\* self._interfaces[name] = i, the dictionary in insertion order.
DictSet(table, name, i) ==
  IF \E k \in 1..Len(table) : table[k].name = name
  THEN [k \in 1..Len(table) |->
          IF table[k].name = name THEN [name |-> name, obj |-> i] ELSE table[k]]
  ELSE Append(table, [name |-> name, obj |-> i])

\* self._interfaces.get(name): the heap id, 0 for None.
DictGet(table, name) ==
  IF \E k \in 1..Len(table) : table[k].name = name
  THEN table[CHOOSE k \in 1..Len(table) : table[k].name = name].obj
  ELSE 0

\* The parameters of Interface.__init__ after self, and the arguments
\* _process_interfaces passes.
InterfaceParams == <<"if_type", "if_dict", "qos_policy_dict", "ingress_map_dict">>
InterfaceArgs == <<"if_type", "interface", "self._policies">>

\* int_obj = Interface(...); self._interfaces[int_obj.name] = int_obj, were
\* the call of Interface to bind: r is what Construct returns for it.
Registered(acc, r) ==
  [heap |-> Append(acc.heap, r.obj), polIfs |-> r.polIfs,
   mapBindings |-> r.mapBindings,
   interfaces |-> IF r.obj.err = "ok"
                  THEN DictSet(acc.interfaces, r.obj.name, Len(acc.heap) + 1)
                  ELSE acc.interfaces,
   err |-> r.obj.err]

\* The interface loop of _process_interfaces from entry k on, on the state
\* acc == [heap, polIfs, mapBindings, interfaces, err].
RECURSIVE BuildInterfaces(_, _, _)
BuildInterfaces(entries, k, acc) ==
  IF k > Len(entries) \/ acc.err /= "ok" THEN acc
  ELSE BuildInterfaces(entries, k + 1,
         Registered(acc, Construct(Len(acc.heap) + 1, entries[k][1],
                                   entries[k][2], acc.polIfs, acc.mapBindings)))

----------------------------------------------------------------------------
(* qos_op_mode.py: the conversion of the dataplane's operational state.    *)
(* A Python dict is a function; a list is a sequence.                      *)

\* Longest dscp2q / pcp2q array given to the map conversions.
MaxMapLen == 3

TC_SHIFT == 2
TC_MASK == 3
WRR_MASK == 7

RECURSIVE Pow2(_)
Pow2(n) == IF n = 0 THEN 1 ELSE 2 * Pow2(n - 1)

\* get_traffic_class(qmap_value): qmap_value & TC_MASK
GetTrafficClass(qmap_value) == qmap_value % (TC_MASK + 1)

\* get_queue_number(qmap_value): (qmap_value >> TC_SHIFT) & WRR_MASK
GetQueueNumber(qmap_value) == (qmap_value \div Pow2(TC_SHIFT)) % (WRR_MASK + 1)

EmptyDict == [k \in {} |-> 0]
DictPut(d, k, v) == [x \in DOMAIN d \cup {k} |-> IF x = k THEN v ELSE d[x]]

\* The qmap values of the arrays: (tc 0, q 0), (tc 1, q 1), (tc 1, q 3),
\* (tc 3, q 7), and 37, which has a bit above the queue number and is
\* (tc 1, q 1) again.
QmapValues == {0, 5, 13, 31, 37}

RECURSIVE SeqsUpTo(_, _)
SeqsUpTo(S, n) ==
  IF n = 0 THEN {<<>>}
  ELSE LET shorter == SeqsUpTo(S, n - 1)
       IN shorter \cup {Append(q, x) : q \in {q \in shorter : Len(q) = n - 1}, x \in S}

\* pipe_in.get('dscp2q') / pipe_in.get('pcp2q'): <<>> for None, or <<array>>.
QmapArrays == Opt(SeqsUpTo(QmapValues, MaxMapLen))

\* An entry of the tagged map: code point, traffic-class, queue.
MapEntry(cp, value) ==
  [cp |-> cp, tc |-> GetTrafficClass(value), queue |-> GetQueueNumber(value)]

\* convert_dscp_map, the loop from element k on: the reverse map is a dict
\* of dicts, created on the way by the except KeyError branches.
RECURSIVE DscpLoop(_, _, _)
DscpLoop(dscp_map_in, k, acc) ==
  IF k > Len(dscp_map_in) THEN acc
  ELSE LET tc_id == GetTrafficClass(dscp_map_in[k])
           q_id == GetQueueNumber(dscp_map_in[k])
           row == IF tc_id \in DOMAIN acc.rev THEN acc.rev[tc_id] ELSE EmptyDict
           dscp_values == IF q_id \in DOMAIN row THEN row[q_id] ELSE <<>>
       IN DscpLoop(dscp_map_in, k + 1,
            [acc EXCEPT !.out = Append(@, MapEntry(k - 1, dscp_map_in[k])),
                        !.rev = DictPut(@, tc_id,
                                  DictPut(row, q_id, Append(dscp_values, k - 1)))])

\* convert_dscp_map(dscp_map_in)
ConvertDscpMap(dscp_map_in) ==
  LET start == [err |-> "ok", out |-> <<>>, rev |-> EmptyDict]
  IN IF dscp_map_in = <<>> THEN start ELSE DscpLoop(dscp_map_in[1], 1, start)

\* convert_pcp_map, the loop from element k on.  The reverse map is the
\* list []: indexing it with tc_id raises IndexError.  pcp_id is advanced
\* only in the else branch of the test of the reverse map's element.
RECURSIVE PcpLoop(_, _, _)
PcpLoop(pcp_map_in, k, acc) ==
  IF k > Len(pcp_map_in) \/ acc.err /= "ok" THEN acc
  ELSE LET tc_id == GetTrafficClass(pcp_map_in[k])
           q_id == GetQueueNumber(pcp_map_in[k])
           a1 == [acc EXCEPT !.out = Append(@, MapEntry(acc.pcp_id, pcp_map_in[k]))]
       IN PcpLoop(pcp_map_in, k + 1,
            IF tc_id + 1 > Len(a1.rev) \/ q_id + 1 > Len(a1.rev[tc_id + 1])
            THEN [a1 EXCEPT !.err = "IndexError"]
            ELSE IF a1.rev[tc_id + 1][q_id + 1] /= NONE THEN a1
            ELSE [a1 EXCEPT !.rev[tc_id + 1][q_id + 1] = <<a1.pcp_id>>,
                            !.pcp_id = @ + 1])

\* convert_pcp_map(pcp_map_in): nothing is returned when it raises.
ConvertPcpMap(pcp_map_in) ==
  LET start == [err |-> "ok", out |-> <<>>, rev |-> <<>>, pcp_id |-> 0]
      r == IF pcp_map_in = <<>> THEN start ELSE PcpLoop(pcp_map_in[1], 1, start)
  IN IF r.err = "ok" THEN [err |-> "ok", out |-> r.out, rev |-> r.rev]
     ELSE [err |-> r.err, out |-> <<>>, rev |-> <<>>]

\* value.strip() for the texts of SysfsTexts.
Strip(text) ==
  CASE text = "3\n" -> "3"
    [] text = "4\n" -> "4"
    [] OTHER -> text

\* get_sysfs_value(ifname, 'ifindex') with the files fs: an OSError of
\* open() returns "8".
GetSysfsValue(fs, ifname) ==
  IF fs[ifname] = NONE THEN "8" ELSE Strip(fs[ifname])

\* A rule of a group: its number, the N of 'tag(N)' in its operation when
\* there is one, its action-group when it has the key, its counters; no
\* policer-stats.
RuleIn(id, tag, action_group) ==
  [id |-> id, tag |-> tag, action_group |-> action_group,
   packets |-> 7, bytes |-> 700]

\* convert_npf_rule(rules_in), from rule k on
RECURSIVE ConvertNpfRule(_, _)
ConvertNpfRule(rules_in, k) ==
  IF k > Len(rules_in) THEN <<>>
  ELSE <<[rule_number |-> rules_in[k].id,
          qos_class |-> rules_in[k].tag,
          action_group |-> IF rules_in[k].action_group = <<>> THEN NONE
                           ELSE rules_in[k].action_group[1],
          packets |-> rules_in[k].packets,
          bytes |-> rules_in[k].bytes]>>
       \o ConvertNpfRule(rules_in, k + 1)

GroupIn(name, class, rules) ==
  [name |-> name, class |-> class, direction |-> "out", rules |-> rules]

\* rules_in.get('groups'): None, no group, one group, two groups.
GroupLists ==
  Opt({ <<>>,
        <<GroupIn("dp0p1", 1, <<>>)>>,
        <<GroupIn("dp0p1", 1, <<RuleIn("1", <<"2">>, <<"A1">>)>>),
          GroupIn("dp0p1", 2, <<RuleIn("1", <<>>, <<>>),
                                RuleIn("2", <<"1">>, <<>>)>>)>> })

\* convert_groups, the loop from group k on
RECURSIVE GroupLoop(_, _, _)
GroupLoop(group_list_in, k, ifindex) ==
  IF k > Len(group_list_in) THEN <<>>
  ELSE <<[name |-> group_list_in[k].name,
          class |-> group_list_in[k].class,
          ifindex |-> ifindex,
          direction |-> group_list_in[k].direction,
          rule |-> ConvertNpfRule(group_list_in[k].rules, 1)]>>
       \o GroupLoop(group_list_in, k + 1, ifindex)

\* convert_groups(subport_ifname, group_list_in)
ConvertGroups(fs, subport_ifname, group_list_in) ==
  IF group_list_in = <<>> THEN <<>>
  ELSE GroupLoop(group_list_in[1], 1, GetSysfsValue(fs, subport_ifname))

\* Longest 'tc' array given to convert_tcs.
MaxTcs == 2

\* A counter is a Python int of up to 48 bits, written as its three 16-bit
\* limbs, least significant first.
RECURSIVE BitAnd(_, _)
BitAnd(a, b) ==
  IF a = 0 \/ b = 0 THEN 0
  ELSE (a % 2) * (b % 2) + 2 * BitAnd(a \div 2, b \div 2)

\* counter & mask
And(counter, mask) == [i \in 1..Len(counter) |-> BitAnd(counter[i], mask[i])]

\* a - b for a >= b, limb by limb from limb k on with the borrow.
RECURSIVE SubLimbs(_, _, _, _)
SubLimbs(a, b, k, borrow) ==
  IF k > Len(a) THEN <<>>
  ELSE LET diff == a[k] - b[k] - borrow
       IN IF diff < 0
          THEN <<diff + 65536>> \o SubLimbs(a, b, k + 1, 1)
          ELSE <<diff>> \o SubLimbs(a, b, k + 1, 0)

Sub(a, b) == SubLimbs(a, b, 1, 0)

\* 0xffffffff and 0xfffffff
MaskOfPackets == <<65535, 65535, 0>>
MaskOfBytes == <<65535, 4095, 0>>

\* Counter values: below 2^28, with bit 28, with bit 32, all 48 bits set.
PacketCounts == {<<5, 0, 0>>, <<9, 0, 1>>, <<65535, 65535, 65535>>}
ByteCounts == {<<7, 0, 0>>, <<7, 4096, 0>>, <<65535, 65535, 65535>>}

\* dropped counts all drops, the random ones included: <<dropped, random_drop>>.
DropCounts ==
  { <<<<3, 0, 0>>, <<1, 0, 0>>>>,
    <<<<0, 0, 1>>, <<1, 0, 0>>>>,
    <<<<9, 1, 1>>, <<9, 1, 1>>>> }

TcsIn ==
  { [packets |-> p, bytes |-> b, dropped |-> d[1], random_drop |-> d[2]] :
      p \in PacketCounts, b \in ByteCounts, d \in DropCounts }

\* convert_tcs(tcs_in), from element k on
RECURSIVE ConvertTcs(_, _)
ConvertTcs(tcs_in, k) ==
  IF k > Len(tcs_in) THEN <<>>
  ELSE LET tc_in == tcs_in[k]
       IN <<[packets |-> And(tc_in.packets, MaskOfPackets),
             bytes |-> And(tc_in.bytes, MaskOfBytes),
             dropped |-> And(Sub(tc_in.dropped, tc_in.random_drop), MaskOfPackets),
             random_drop |-> And(tc_in.random_drop, MaskOfPackets),
             traffic_class |-> k - 1,
             packets_64 |-> tc_in.packets,
             bytes_64 |-> tc_in.bytes,
             dropped_64 |-> Sub(tc_in.dropped, tc_in.random_drop),
             random_drop_64 |-> tc_in.random_drop]>>
          \o ConvertTcs(tcs_in, k + 1)

\* A queue of a traffic class as the dataplane reports it, with 'qlen' and
\* without 'wred_map'.
QueueIn(packets) ==
  [packets |-> packets, bytes |-> <<7, 4096, 0>>, dropped |-> <<3, 0, 0>>,
   random_drop |-> <<1, 0, 0>>, qlen |-> <<2, 0, 0>>, prio_local |-> FALSE]

\* The 'tc' array of a pipe: four traffic classes of eight queues.
TcArray == [tc \in 1..(TC_MASK + 1) |->
              [q \in 1..(WRR_MASK + 1) |-> QueueIn(<<q, tc, 1>>)]]

\* convert_map_list(map_list, map_type)
ConvertMapList(map_list, map_type) ==
  [k \in 1..Len(map_list) |-> [type |-> map_type, value |-> map_list[k]]]

\* reverse_map[tc_id][queue_id] on the dict of dicts of convert_dscp_map and
\* on the list of convert_pcp_map.
ReverseLookup(reverse_map, map_type_values, tc_id, queue_id) ==
  IF map_type_values = "dscp-values"
  THEN IF tc_id \in DOMAIN reverse_map /\ queue_id \in DOMAIN reverse_map[tc_id]
       THEN [err |-> "ok", list |-> reverse_map[tc_id][queue_id]]
       ELSE [err |-> "KeyError", list |-> <<>>]
  ELSE IF tc_id + 1 <= Len(reverse_map)
          /\ queue_id + 1 <= Len(reverse_map[tc_id + 1])
       THEN [err |-> "ok", list |-> reverse_map[tc_id + 1][queue_id + 1]]
       ELSE [err |-> "IndexError", list |-> <<>>]

\* queue_out of convert_tc_queues for the queue at position queue_id.
QueueOut(queue, queue_id, cp_list, map_type_values) ==
  [queue |-> queue_id,
   packets |-> And(queue.packets, MaskOfPackets),
   bytes |-> And(queue.bytes, MaskOfPackets),
   dropped |-> And(Sub(queue.dropped, queue.random_drop), MaskOfPackets),
   random_drop |-> And(queue.random_drop, MaskOfPackets),
   packets_64 |-> queue.packets,
   bytes_64 |-> queue.bytes,
   dropped_64 |-> Sub(queue.dropped, queue.random_drop),
   random_drop_64 |-> queue.random_drop,
   qlen |-> And(queue.qlen, MaskOfPackets),
   qlen_packets |-> queue.qlen,
   priority_local |-> queue.prio_local,
   values_key |-> map_type_values,
   values |-> ConvertMapList(cp_list,
               IF map_type_values = "dscp-values" THEN "dscp" ELSE "pcp")]

\* convert_tc_queues from queue k on: a KeyError of the reverse map skips
\* the queue, an IndexError leaves the function.
RECURSIVE ConvertTcQueues(_, _, _, _, _, _)
ConvertTcQueues(tc_queues_in, tc_id, reverse_map, map_type_values, k, acc) ==
  IF k > Len(tc_queues_in) \/ acc.err /= "ok" THEN acc
  ELSE LET look == ReverseLookup(reverse_map, map_type_values, tc_id, k - 1)
       IN ConvertTcQueues(tc_queues_in, tc_id, reverse_map, map_type_values, k + 1,
            IF look.err = "ok"
            THEN [acc EXCEPT !.list = Append(@, QueueOut(tc_queues_in[k], k - 1,
                                                   look.list, map_type_values))]
            ELSE IF look.err = "KeyError" THEN acc
            ELSE [acc EXCEPT !.err = look.err])

\* convert_tc_queue_list from traffic class k on
RECURSIVE ConvertTcQueueList(_, _, _, _, _)
ConvertTcQueueList(tc_queues_list_in, reverse_map, map_type_values, k, acc) ==
  IF k > Len(tc_queues_list_in) \/ acc.err /= "ok" THEN acc
  ELSE LET qs == ConvertTcQueues(tc_queues_list_in[k], k - 1, reverse_map,
                                 map_type_values, 1,
                                 [err |-> "ok", list |-> <<>>])
       IN ConvertTcQueueList(tc_queues_list_in, reverse_map, map_type_values, k + 1,
            IF qs.err = "ok"
            THEN [acc EXCEPT !.list = Append(@, [traffic_class |-> k - 1,
                                                 queue_statistics |-> qs.list])]
            ELSE [acc EXCEPT !.err = qs.err])

\* convert_tc_rates / convert_wrr_weights: the array tagged by position.
Tagged(array) == [k \in 1..Len(array) |-> [id |-> k - 1, value |-> array[k]]]

\* pipe_in['params']
PipeParams == [tb_rate |-> 1000, tb_size |-> 100, tc_period |-> 10,
               tc_rates |-> <<1000, 1000, 500, 500>>,
               wrr_weights |-> <<1, 1, 2, 2, 1, 1, 1, 1>>]

PipeIn(dscp2q, pcp2q) ==
  [dscp2q |-> dscp2q, pcp2q |-> pcp2q, tc |-> TcArray, params |-> PipeParams]

\* Pipes with and without a dscp2q array, with and without a pcp2q array.
PipesIn ==
  { PipeIn(d, p) : d \in Opt({<<>>, <<5, 0>>, <<37, 5, 31>>}),
                   p \in Opt({<<>>, <<5>>}) }

\* What convert_pipe returns when a conversion it calls raises.
PipeRaised(err) ==
  [err |-> err, pipe |-> 0, qos_profile |-> NONE, params |-> <<>>,
   values_key |-> NONE, dscp_to_queue_map |-> <<>>, pcp_to_queue_map |-> <<>>,
   queues_list |-> <<>>]

\* convert_pipe(cmd, pipe_in, pipe_id, profile_name).  Both maps are set in
\* pipe_out before the test of pipe_out.get('dscp-to-queue-map'), the dscp
\* one to [] when the pipe has no dscp2q.
ConvertPipe(cmd, pipe_in, pipe_id, profile_name) ==
  LET dscp == ConvertDscpMap(pipe_in.dscp2q)
      pcp == ConvertPcpMap(pipe_in.pcp2q)
      dscp_to_queue_map == <<dscp.out>>
      values_key == IF dscp_to_queue_map /= <<>> THEN "dscp-values"
                    ELSE "pcp-values"
      queue_list == ConvertTcQueueList(pipe_in.tc,
                      IF dscp_to_queue_map /= <<>> THEN dscp.rev ELSE pcp.rev,
                      values_key, 1, [err |-> "ok", list |-> <<>>])
  IN IF pcp.err /= "ok" THEN PipeRaised(pcp.err)
     ELSE IF queue_list.err /= "ok" THEN PipeRaised(queue_list.err)
     ELSE [err |-> "ok", pipe |-> pipe_id, qos_profile |-> profile_name,
           params |-> IF cmd = "all"
                      THEN <<[pipe_in.params EXCEPT
                                !.tc_rates = Tagged(@),
                                !.wrr_weights = Tagged(@)]>>
                      ELSE <<>>,
           values_key |-> values_key,
           dscp_to_queue_map |-> IF cmd = "stats" THEN <<>> ELSE dscp_to_queue_map,
           pcp_to_queue_map |-> IF cmd = "stats" THEN <<>> ELSE <<pcp.out>>,
           queues_list |-> queue_list.list]

\* No function of qos_op_mode.py has been called.
NoOpm == [fn |-> "none", arg |-> <<>>, res |-> [err |-> "ok"]]

\* A thread that has made no call yet.
NoReader == [pc |-> "idle", op |-> "none", obj |-> 0, text |-> NONE,
             looked |-> FALSE, val |-> NONE, err |-> "ok", list |-> <<>>]

----------------------------------------------------------------------------
(* The state machine: callers that build interfaces against the shared     *)
(* registries and use the ones that were built.                            *)

NoRet == [op |-> "none", self |-> 0, err |-> "ok", list |-> <<>>,
          val |-> NONE, key |-> GlobalKey(NONE), idx |-> -1,
          looked |-> FALSE]

Init ==
  /\ heap = <<>>
  /\ polIfs = [p \in PolicyNames |-> <<>>]
  /\ mapBindings = [m \in IngressMaps |-> <<>>]
  /\ sysfs = [n \in IfNames |-> IF n = "dp0p1" THEN "3\n" ELSE NONE]
  /\ ret = NoRet
  /\ qos = NoQos
  /\ readers = [r \in 1..NumReaders |-> NoReader]
  /\ opm = NoOpm

\* The objects a caller holds: the ones whose construction returned.
Built == { i \in 1..Len(heap) : heap[i].err = "ok" }

\* Interface(if_type, if_dict, qos_policy_dict, ingress_map_dict)
NewInterface(if_type, d) ==
  /\ \A i \in 1..Len(heap) : heap[i].name /= d.name
  /\ LET self == Len(heap) + 1
         r == Construct(self, if_type, d, polIfs, mapBindings)
     IN /\ heap' = Append(heap, r.obj)
        /\ polIfs' = r.polIfs
        /\ mapBindings' = r.mapBindings
        /\ ret' = [NoRet EXCEPT !.op = "Interface", !.self = self,
                                !.err = r.obj.err, !.val = r.obj.errkey]
  /\ UNCHANGED <<sysfs, qos, readers, opm>>

\* interface.ifindex
GetIfindex(i) ==
  /\ i \in Built
  /\ heap' = [heap EXCEPT ![i] = IfindexCached(@, sysfs)]
  /\ ret' = [NoRet EXCEPT !.op = "ifindex", !.self = i,
                          !.val = IfindexOf(heap[i], sysfs),
                          !.looked = Looked(heap[i])]
  /\ UNCHANGED <<polIfs, mapBindings, sysfs, qos, readers, opm>>

\* interface.commands()
GetCommands(i) ==
  /\ i \in Built
  /\ LET r == Commands(heap[i], IfindexOf(heap[i], sysfs))
     IN ret' = [NoRet EXCEPT !.op = "commands", !.self = i, !.err = r.err,
                             !.list = r.list, !.looked = Looked(heap[i])]
  /\ heap' = [heap EXCEPT ![i] = IfindexCached(@, sysfs)]
  /\ UNCHANGED <<polIfs, mapBindings, sysfs, qos, readers, opm>>

\* interface.profile_index_get(key)
GetProfileIndex(i, key) ==
  /\ i \in Built
  /\ ret' = [NoRet EXCEPT !.op = "profile_index_get", !.self = i, !.key = key,
                          !.idx = ProfileIndexGet(heap[i].profile_index, key)]
  /\ UNCHANGED <<heap, polIfs, mapBindings, sysfs, qos, readers, opm>>

\* The keys callers look up: the ones of the table and one that is in none.
LookupKeys(i) == DOMAIN heap[i].profile_index \cup {GlobalKey("nosuch")}

Next ==
  \/ \E inp \in IfInputs : NewInterface(inp[1], inp[2])
  \/ \E i \in 1..Len(heap) : GetIfindex(i)
  \/ \E i \in 1..Len(heap) : GetCommands(i)
  \/ \E i \in 1..Len(heap) : \E key \in LookupKeys(i) : GetProfileIndex(i, key)

Spec == Init /\ [][Next]_vars

----------------------------------------------------------------------------
(* The ifindex property while the interface comes and goes in the system.  *)

\* The kernel creates, renumbers or removes the interface named n.
SysfsChange(n, text) ==
  /\ sysfs[n] /= text
  /\ sysfs' = [sysfs EXCEPT ![n] = text]
  /\ ret' = [NoRet EXCEPT !.op = "sysfs"]
  /\ UNCHANGED <<heap, polIfs, mapBindings, qos, readers, opm>>

NextIfindex ==
  \/ \E d \in TrunkDicts("dp0p1") : NewInterface("dataplane", d)
  \/ \E d \in TrunkDicts("dp0vhost1") : NewInterface("vhost", d)
  \/ \E i \in 1..Len(heap) : GetIfindex(i)
  \/ \E n \in IfNames : \E text \in SysfsTexts : SysfsChange(n, text)

SpecIfindex == Init /\ [][NextIfindex]_vars

----------------------------------------------------------------------------
(* Interface.__eq__ on objects built from the same raw subtree under       *)
(* different interface types.                                              *)

\* Most Interface objects alive at once when interfaces are compared.
MaxObjects == 2

\* A policy dictionary written with the key 'vyatta-policy-qos-v1:qos', as
\* POLICY_KEY[if_type] finds it: a bonding interface looks for
\* 'vyatta-interfaces-bonding-qos-v1:qos', which is not there.
PolDictSeenAs(if_type, pd) ==
  IF if_type = "bonding" THEN PolDict(NONE, pd.imap) ELSE pd

OptPolSeenAs(if_type, pol) ==
  IF pol = <<>> THEN <<>> ELSE <<PolDictSeenAs(if_type, pol[1])>>

ListSeenAs(if_type, list) ==
  [k \in 1..Len(list) |-> [list[k] EXCEPT !.pol = OptPolSeenAs(if_type, @)]]

\* A subtree written with the dataplane key names, as the lookups of
\* __init__ for if_type find it (dataplane and bonding share 'tagnode',
\* the policy namespace and the vif key).
SeenAs(if_type, d) ==
  [d EXCEPT !.std = OptPolSeenAs(if_type, @),
            !.vif = IF @ = <<>> THEN <<>> ELSE <<ListSeenAs(if_type, @[1])>>]

\* Subtrees that differ from one another in a single field.
EqDicts ==
  { IfDict("dp0p1", <<PolDict("P1", NONE)>>, <<>>, <<>>),
    IfDict("dp0p1", <<PolDict("P1", "M1")>>, <<>>, <<>>),
    IfDict("dp0p1", <<PolDict("P2", "M1")>>, <<>>, <<>>),
    IfDict("dp0p1", <<PolDict("P1", NONE)>>, <<>>,
           <<<<[tag |-> TagOf(1), pol |-> <<PolDict("P2", NONE)>>]>>>>) }

EqTypes == {"dataplane", "bonding"}

\* __eq__ comparing every field of the two objects.
InterfaceEqAllFields(a, b) == a = b

\* Interface.__eq__(self, interface)
InterfaceEq(a, b) == a.if_dict = b.if_dict

\* Interface(if_type, if_dict, ...) for a subtree written with the dataplane
\* key names; self._if_dict is the subtree as given.
NewInterfaceAs(if_type, d) ==
  /\ Len(heap) < MaxObjects
  /\ LET self == Len(heap) + 1
         r == Construct(self, if_type, SeenAs(if_type, d), polIfs, mapBindings)
     IN /\ heap' = Append(heap, [r.obj EXCEPT !.if_dict = d])
        /\ polIfs' = r.polIfs
        /\ mapBindings' = r.mapBindings
        /\ ret' = [NoRet EXCEPT !.op = "Interface", !.self = self,
                                !.err = r.obj.err, !.val = r.obj.errkey]
  /\ UNCHANGED <<sysfs, qos, readers, opm>>

\* heap[i] == heap[j]
Compare(i, j) ==
  /\ i \in Built /\ j \in Built
  /\ ret' = [NoRet EXCEPT !.op = "eq", !.self = i, !.idx = j,
                          !.val = IF InterfaceEq(heap[i], heap[j])
                                  THEN "True" ELSE "False"]
  /\ UNCHANGED <<heap, polIfs, mapBindings, sysfs, qos, readers, opm>>

NextEq ==
  \/ \E t \in EqTypes : \E d \in EqDicts : NewInterfaceAs(t, d)
  \/ \E i \in 1..Len(heap) : GetIfindex(i)
  \/ \E i, j \in 1..Len(heap) : Compare(i, j)

SpecEq == Init /\ [][NextEq]_vars

----------------------------------------------------------------------------
(* QosConfig.__init__, method by method, and the queries on a QosConfig.   *)

\* No QosConfig.__init__ is running.
QosIdle == qos.pc \in {"none", "done", "raised"}

\* AfterPolicyGet going on to the interfaces section without a policy
\* section.
AfterPolicyGetNoReturn(cfg) ==
  IF cfg.policy = <<>> THEN "interfaces" ELSE "action"

\* policy_dict = config_dict.get('vyatta-policy-v1:policy'); if policy_dict
\* is None: return
AfterPolicyGet(cfg) == IF cfg.policy = <<>> THEN "done" ELSE "action"

\* QosConfig(config_dict): the empty registries; done when the snapshot has
\* no policy section.
NewQosConfig(cfg) ==
  /\ QosIdle
  /\ qos' = [NoQos EXCEPT !.cfg = cfg, !.pc = AfterPolicyGet(cfg)]
  /\ ret' = [NoRet EXCEPT !.op = "QosConfig"]
  /\ UNCHANGED <<heap, polIfs, mapBindings, sysfs, readers, opm>>

\* self._process_action(action_dict), then policy_dict['...:qos']
ProcessAction ==
  /\ qos.pc = "action"
  /\ qos' = [qos EXCEPT !.action_groups = NamesOf(qos.cfg.policy[1].action),
                        !.pc = IF qos.cfg.policy[1].qos = <<>>
                               THEN "raised" ELSE "qos",
                        !.err = IF qos.cfg.policy[1].qos = <<>>
                                THEN "KeyError" ELSE "ok"]
  /\ UNCHANGED <<heap, polIfs, mapBindings, sysfs, ret, readers, opm>>

\* self._process_qos(qos_dict)
ProcessQos ==
  /\ qos.pc = "qos"
  /\ LET qos_dict == qos.cfg.policy[1].qos[1]
     IN qos' = [qos EXCEPT !.mark_maps = NamesOf(qos_dict.mark_map),
                           !.global_profiles = ProfilesOf(qos_dict.profile),
                           !.policies = NamesOf(qos_dict.name),
                           !.pc = "interfaces"]
  /\ UNCHANGED <<heap, polIfs, mapBindings, sysfs, ret, readers, opm>>

\* _process_interfaces(if_dict) on the state acc: nothing to do without
\* interface entries; else the first call of Interface raises TypeError, for
\* it passes three arguments for four parameters.
ProcessedInterfaces(sec, acc) ==
  IF sec = <<>> \/ sec[1] = <<>> THEN acc
  ELSE IF Len(InterfaceArgs) /= Len(InterfaceParams)
       THEN [acc EXCEPT !.err = "TypeError"]
       ELSE BuildInterfaces(sec[1], 1, acc)

\* self._process_interfaces(if_dict)
ProcessInterfaces ==
  /\ qos.pc = "interfaces"
  /\ LET r == ProcessedInterfaces(qos.cfg.interfaces,
                  [heap |-> heap, polIfs |-> polIfs,
                   mapBindings |-> mapBindings,
                   interfaces |-> <<>>, err |-> "ok"])
     IN /\ heap' = r.heap
        /\ polIfs' = r.polIfs
        /\ mapBindings' = r.mapBindings
        /\ qos' = [qos EXCEPT !.interfaces = r.interfaces,
                              !.err = r.err,
                              !.pc = IF r.err = "ok" THEN "done" ELSE "raised"]
  /\ UNCHANGED <<sysfs, ret, readers, opm>>

\* qos_config.find_interface(name): ret.self is the object, 0 for None.
FindInterface(name) ==
  /\ qos.pc = "done"
  /\ ret' = [NoRet EXCEPT !.op = "find_interface", !.val = name,
                          !.self = DictGet(qos.interfaces, name)]
  /\ UNCHANGED <<heap, polIfs, mapBindings, sysfs, qos, readers, opm>>

\* qos_config.deferred_interfaces: the names whose ifindex is None, every
\* interface's ifindex looked up on the way.
GetDeferredInterfaces ==
  /\ qos.pc = "done"
  /\ LET ids == {qos.interfaces[k].obj : k \in 1..Len(qos.interfaces)}
         deferred == SelectSeq(qos.interfaces,
                       LAMBDA e : IfindexOf(heap[e.obj], sysfs) = NONE)
     IN /\ heap' = [i \in 1..Len(heap) |->
                      IF i \in ids THEN IfindexCached(heap[i], sysfs)
                      ELSE heap[i]]
        /\ ret' = [NoRet EXCEPT !.op = "deferred_interfaces",
                                !.list = [k \in 1..Len(deferred) |->
                                            deferred[k].name]]
  /\ UNCHANGED <<polIfs, mapBindings, sysfs, qos, readers, opm>>

\* Subtrees given to Interface directly: the standard layout with two vifs,
\* the hardware-switch layout with two vlans, and the two together.
TwoVifs ==
  <<[tag |-> TagOf(1), pol |-> <<PolDict("P1", NONE)>>],
    [tag |-> TagOf(2), pol |-> <<PolDict("P2", NONE)>>]>>

TwoVlans ==
  <<[tag |-> TagOf(1), pol |-> <<PolDict("P2", "M1")>>],
    [tag |-> TagOf(2), pol |-> <<PolDict("P1", NONE)>>]>>

DirectDicts ==
  { IfDict("dp0p1", <<PolDict("P1", NONE)>>, <<>>, <<TwoVifs>>),
    IfDict("dp0p1", <<>>,
           <<SwitchGroup(<<PortParams(<<PolDict("P1", NONE)>>, <<TwoVlans>>)>>)>>,
           <<>>),
    IfDict("dp0p1", <<>>,
           <<SwitchGroup(<<PortParams(<<PolDict("P1", NONE)>>, <<TwoVlans>>)>>)>>,
           <<TwoVifs>>),
    IfDict("dp0vhost1", <<PolDict("P2", "M1")>>, <<>>, <<>>) }

\* Interface(...) called by a caller other than QosConfig.
DirectInterface(d) ==
  /\ QosIdle
  /\ NewInterface(IF d.name = "dp0vhost1" THEN "vhost" ELSE "dataplane", d)

\* interface.commands() once no construction is running.
DirectCommands(i) ==
  /\ QosIdle
  /\ GetCommands(i)

NextQos ==
  \/ \E cfg \in ConfigDicts : NewQosConfig(cfg)
  \/ ProcessAction
  \/ ProcessQos
  \/ ProcessInterfaces
  \/ \E n \in IfNames : FindInterface(n)
  \/ GetDeferredInterfaces
  \/ \E d \in DirectDicts : DirectInterface(d)
  \/ \E i \in 1..Len(heap) : DirectCommands(i)

SpecQos == Init /\ [][NextQos]_vars

----------------------------------------------------------------------------
(* Threads reading ifindex and calling commands() on built interfaces,     *)
(* statement by statement of the ifindex property.  commands() reads       *)
(* self.ifindex once, for cmd_prefix, before anything else.                *)

\* Thread r calls heap[i].ifindex or heap[i].commands().
ReaderCall(r, i, op) ==
  /\ readers[r].pc = "idle"
  /\ i \in Built
  /\ readers' = [readers EXCEPT ![r] = [NoReader EXCEPT !.pc = "check",
                                                        !.op = op, !.obj = i]]
  /\ UNCHANGED <<heap, polIfs, mapBindings, sysfs, ret, qos, opm>>

\* if self._ifindex is not None: return self._ifindex
ReaderCheck(r) ==
  /\ readers[r].pc = "check"
  /\ readers' = [readers EXCEPT ![r].pc = IF Looked(heap[readers[r].obj])
                                          THEN "open" ELSE "return",
                                ![r].looked = Looked(heap[readers[r].obj])]
  /\ UNCHANGED <<heap, polIfs, mapBindings, sysfs, ret, qos, opm>>

\* with open(filename) as if_file: if_file.read(); an OSError is caught.
ReaderOpen(r) ==
  /\ readers[r].pc = "open"
  /\ LET text == sysfs[heap[readers[r].obj].name]
     IN readers' = [readers EXCEPT ![r].text = text,
                                   ![r].pc = IF text = NONE
                                             THEN "return" ELSE "store"]
  /\ UNCHANGED <<heap, polIfs, mapBindings, sysfs, ret, qos, opm>>

\* self._ifindex = <the text read>.replace('\n', '')
ReaderStore(r) ==
  /\ readers[r].pc = "store"
  /\ heap' = [heap EXCEPT ![readers[r].obj].ifindex = StripNewline(readers[r].text)]
  /\ readers' = [readers EXCEPT ![r].pc = "return"]
  /\ UNCHANGED <<polIfs, mapBindings, sysfs, ret, qos, opm>>

\* return self._ifindex; in commands(), the rest of the method with it.
ReaderReturn(r) ==
  /\ readers[r].pc = "return"
  /\ LET obj == heap[readers[r].obj]
         res == IF readers[r].op = "commands"
                THEN Commands(obj, obj.ifindex)
                ELSE [err |-> "ok", list |-> <<>>]
     IN readers' = [readers EXCEPT ![r].pc = "idle",
                                   ![r].val = obj.ifindex,
                                   ![r].err = res.err,
                                   ![r].list = res.list]
  /\ UNCHANGED <<heap, polIfs, mapBindings, sysfs, ret, qos, opm>>

NextRace ==
  \/ \E d \in TrunkDicts("dp0p1") : NewInterface("dataplane", d)
  \/ \E d \in TrunkDicts("dp0vhost1") : NewInterface("vhost", d)
  \/ \E r \in 1..NumReaders : \E i \in 1..Len(heap) :
       \E op \in {"ifindex", "commands"} : ReaderCall(r, i, op)
  \/ \E r \in 1..NumReaders : ReaderCheck(r)
  \/ \E r \in 1..NumReaders : ReaderOpen(r)
  \/ \E r \in 1..NumReaders : ReaderStore(r)
  \/ \E r \in 1..NumReaders : ReaderReturn(r)

SpecRace == Init /\ [][NextRace]_vars

----------------------------------------------------------------------------
(* Calls of the functions of qos_op_mode.py.                               *)

\* The caller has no result in hand.
OpmIdle == opm.fn = "none"

\* fn(arg) returned res.
Called(fn, arg, res) == [fn |-> fn, arg |-> arg, res |-> res]

\* The caller is done with the result.
OpmReturn ==
  /\ opm.fn /= "none"
  /\ opm' = NoOpm
  /\ UNCHANGED <<heap, polIfs, mapBindings, sysfs, ret, qos, readers>>

CallConvertDscpMap(dscp_map_in) ==
  /\ OpmIdle
  /\ opm' = Called("convert_dscp_map", dscp_map_in, ConvertDscpMap(dscp_map_in))
  /\ UNCHANGED <<heap, polIfs, mapBindings, sysfs, ret, qos, readers>>

CallConvertPcpMap(pcp_map_in) ==
  /\ OpmIdle
  /\ opm' = Called("convert_pcp_map", pcp_map_in, ConvertPcpMap(pcp_map_in))
  /\ UNCHANGED <<heap, polIfs, mapBindings, sysfs, ret, qos, readers>>

CallGetSysfsValue(ifname) ==
  /\ OpmIdle
  /\ opm' = Called("get_sysfs_value", ifname,
                    [err |-> "ok", val |-> GetSysfsValue(sysfs, ifname)])
  /\ UNCHANGED <<heap, polIfs, mapBindings, sysfs, ret, qos, readers>>

CallConvertGroups(ifname, groups) ==
  /\ OpmIdle
  /\ opm' = Called("convert_groups", [ifname |-> ifname, groups |-> groups],
                    [err |-> "ok", out |-> ConvertGroups(sysfs, ifname, groups)])
  /\ UNCHANGED <<heap, polIfs, mapBindings, sysfs, ret, qos, readers>>

CallConvertTcs(tcs_in) ==
  /\ OpmIdle
  /\ opm' = Called("convert_tcs", tcs_in, [err |-> "ok", out |-> ConvertTcs(tcs_in, 1)])
  /\ UNCHANGED <<heap, polIfs, mapBindings, sysfs, ret, qos, readers>>

CallConvertPipe(cmd, pipe_in) ==
  /\ OpmIdle
  /\ opm' = Called("convert_pipe", [cmd |-> cmd, pipe_in |-> pipe_in],
                    ConvertPipe(cmd, pipe_in, 0, "prof"))
  /\ UNCHANGED <<heap, polIfs, mapBindings, sysfs, ret, qos, readers>>

NextOpm ==
  \/ \E cmd \in {"all", "stats"} : \E p \in PipesIn : CallConvertPipe(cmd, p)
  \/ OpmReturn
  \/ \E tcs \in SeqsUpTo(TcsIn, MaxTcs) : CallConvertTcs(tcs)
  \/ \E n \in IfNames : CallGetSysfsValue(n)
  \/ \E n \in IfNames : \E g \in GroupLists : CallConvertGroups(n, g)
  \/ \E a \in QmapArrays : CallConvertDscpMap(a)
  \/ \E a \in QmapArrays : CallConvertPcpMap(a)

SpecOpm == Init /\ [][NextOpm]_vars

----------------------------------------------------------------------------
(* Properties.                                                             *)

ClassCount(p) == Len(Policies[p].classes)
Count(seq, x) == Cardinality({k \in 1..Len(seq) : seq[k] = x})
Known(name, registry) == name \in registry \cup {NONE}

\* The object the last call was made on.
Callee == heap[ret.self]

\* No subport's attached policy has a traffic class.
NoClass(obj) ==
  \A k \in 1..Len(obj.subports) :
    obj.subports[k].policy = NONE \/ ClassCount(obj.subports[k].policy) = 0

\* C1: commands() returns an empty list if and only if no subport's attached
\* policy has at least one traffic class (max_pipes = 0): then there is no
\* header, no per-subport command and no enable command.
C1_EmptyIffNoPipes ==
  ret.op = "commands" =>
    /\ (ret.err = "ok" /\ ret.list = <<>>) <=> NoClass(Callee)
    /\ NoClass(Callee) <=> MaxPipes(Callee.subports, Len(Callee.subports)) = 0

\* commands() returned nothing for an interface whose trunk has a policy
\* without classes.
C1_Witness ==
  /\ ret.op = "commands" /\ ret.err = "ok" /\ ret.list = <<>>
  /\ \E k \in 1..Len(Callee.subports) : Callee.subports[k].policy /= NONE

\* C2: with max_pipes > 0, commands() returns a list with exactly one port
\* header, first, exactly one enable command, last, and the subports'
\* commands in subport-list order strictly between them.
C2_HeaderFirstEnableLast ==
  (ret.op = "commands" /\ ~NoClass(Callee)) =>
    /\ ret.err = "ok"
    /\ Len(ret.list) >= 2
    /\ ret.list[1].kind = "port"
    /\ ret.list[Len(ret.list)].kind = "enable"
    /\ \A k \in 2..(Len(ret.list) - 1) : ret.list[k].kind = "pipe"
    /\ SubSeq(ret.list, 2, Len(ret.list) - 1)
         = AllSubportCommands(Callee, Callee.ifindex, 1)

\* The number n is the largest class count of the policies on obj's subports.
PipesIsMax(obj, n) ==
  /\ \A k \in 1..Len(obj.subports) :
       obj.subports[k].policy /= NONE => ClassCount(obj.subports[k].policy) <= n
  /\ \E k \in 1..Len(obj.subports) :
       obj.subports[k].policy /= NONE /\ ClassCount(obj.subports[k].policy) = n

\* The number o is the frame overhead of the policy on subport 0, the trunk.
OverheadIsTrunk(obj, o) ==
  \E k \in 1..Len(obj.subports) :
    /\ obj.subports[k].id = 0 /\ obj.subports[k].vlan_id = 0
    /\ obj.subports[k].policy /= NONE
    /\ o = Policies[obj.subports[k].policy].overhead

\* C3: the port header of commands() carries the number of subports, the
\* largest class count over the subports' policies, the number of keys of the
\* profile-index table, and the frame overhead of the trunk's policy.
C3_HeaderFields ==
  (ret.op = "commands" /\ ret.err = "ok" /\ ret.list /= <<>>
     /\ ret.list[1].kind = "port") =>
    /\ ret.list[1].subports = Len(Callee.subports)
    /\ PipesIsMax(Callee, ret.list[1].pipes)
    /\ ret.list[1].profiles = Cardinality(DOMAIN Callee.profile_index)
    /\ OverheadIsTrunk(Callee, ret.list[1].overhead)

\* A header for a trunk with the one-class policy P1 and two VLANs, the last
\* with the two-class policy P2, whose overhead differs.
C3_Witness ==
  /\ ret.op = "commands" /\ ret.err = "ok" /\ ret.list /= <<>>
  /\ ret.list[1].kind = "port"
  /\ Len(Callee.subports) = 3
  /\ Callee.subports[1].policy = "P1" /\ Callee.subports[3].policy = "P2"
  /\ ret.list[1].pipes = 2
  /\ ret.list[1].overhead = Policies["P1"].overhead

\* The entry of the end-to-end scenario: no trunk policy, one vif with tag 10
\* and the policy P1 (one class, one local profile).
VlanOnlyDict(d) ==
  /\ d.std = <<PolDict(NONE, NONE)>> /\ d.sw = <<>>
  /\ d.vif = << <<[tag |-> TagOf(1), pol |-> <<PolDict("P1", NONE)>>]>> >>

\* C4: for that entry the subport list has ids 0 and 1, and commands()
\* returns the header with pipes 1 and profiles 1, the pipe command of
\* subport 1 and the enable command.
C4_VlanOnlyScenario ==
  (ret.op = "commands" /\ VlanOnlyDict(Callee.if_dict)) =>
    /\ [k \in 1..Len(Callee.subports) |-> Callee.subports[k].id] = <<0, 1>>
    /\ ret.err = "ok"
    /\ Len(ret.list) = 3
    /\ ret.list[1].kind = "port"
    /\ ret.list[1].pipes = 1 /\ ret.list[1].profiles = 1
    /\ ret.list[2].kind = "pipe" /\ ret.list[2].subport = 1
    /\ ret.list[3].kind = "enable"

IsVlanSubport(sp) == sp.id /= 0

\* C5: subport id 0 is the trunk's only, the VLAN subports have the ids 1..N
\* in list order, and the subport list is strictly ascending by id.
C5_SubportIds ==
  \A i \in Built :
    LET sp == heap[i].subports
        vl == SelectSeq(sp, IsVlanSubport)
    IN /\ \A k \in 1..Len(sp) : sp[k].id = 0 => sp[k].vlan_id = 0
       /\ \A k \in 1..Len(vl) : vl[k].id = k
       /\ \A k \in 1..(Len(sp) - 1) : sp[k].id < sp[k + 1].id

\* Forward and backward lists agree, and a subport's policy is in the
\* interface's list.
CrossLinked ==
  \A i \in 1..Len(heap) :
    /\ \A p \in PolicyNames : Count(heap[i].policies, p) = Count(polIfs[p], i)
    /\ \A k \in 1..Len(heap[i].subports) :
         heap[i].subports[k].policy /= NONE =>
           Count(heap[i].policies, heap[i].subports[k].policy) > 0

LinksUnchanged ==
  /\ polIfs' = polIfs
  /\ Len(heap') = Len(heap)
  /\ \A i \in 1..Len(heap) : heap'[i].policies = heap[i].policies

\* C6: a policy occurs k times in an interface's policies list exactly when
\* the interface occurs k times in the policy's back-reference list, every
\* subport's policy is in its interface's list, and no operation after
\* construction changes either list.
C6_CrossLinks ==
  /\ []CrossLinked
  /\ [][ret'.op /= "Interface" => LinksUnchanged]_vars

\* Two interfaces share P1, the first one twice (trunk and a vif), and
\* commands() has run since.
C6_Witness ==
  /\ Len(heap) = 2
  /\ Count(polIfs["P1"], 1) = 2 /\ Count(polIfs["P1"], 2) = 1
  /\ Count(heap[1].policies, "P1") = 2
  /\ ret.op = "commands"

\* The policy names the entries of a list refer to are all in the registry.
ListResolves(list) ==
  \A k \in 1..Len(list) :
    list[k].pol = <<>> \/ Known(list[k].pol[1].qos, PolicyNames)

\* The entry names a policy that is not in the Policy Registry.
UnknownPolicyNamed(d) ==
  LET tr == TrunkResolve(d)
      vl == VlanListOf(tr.pp)
  IN \/ tr.ipd /= <<>> /\ ~Known(tr.ipd[1].qos, PolicyNames)
     \/ d.vif /= <<>> /\ ~ListResolves(d.vif[1])
     \/ vl /= <<>> /\ ~ListResolves(vl[1])

\* C7: an entry that names an unknown policy makes construction fail, and no
\* policy of the registry keeps a back-reference to the failed interface.
C7_NoPartialGraph ==
  \A i \in 1..Len(heap) :
    UnknownPolicyNamed(heap[i].if_dict) =>
      /\ heap[i].err = "KeyError"
      /\ \A p \in PolicyNames : Count(polIfs[p], i) = 0

\* The trunk or a vlan of the entry names an ingress-map that is not in the
\* Ingress-Map Registry.
UnknownMapNamed(d) ==
  LET tr == TrunkResolve(d)
      vl == VlanListOf(tr.pp)
  IN \/ tr.ipd /= <<>> /\ ~Known(tr.ipd[1].imap, IngressMaps)
     \/ vl /= <<>> /\ \E k \in 1..Len(vl[1]) :
          vl[1][k].pol /= <<>> /\ ~Known(vl[1][k].pol[1].imap, IngressMaps)

\* C8: an entry that names an unknown ingress-map makes construction fail.
C8_UnknownMapFatal ==
  \A i \in 1..Len(heap) :
    UnknownMapNamed(heap[i].if_dict) => heap[i].err /= "ok"

\* The entry has no standard policy key and no switch-group policy (no
\* switch-group, no port-parameters, or no policy key in them), and no VLANs.
NoTrunkAttachment(d) ==
  /\ d.std = <<>>
  /\ d.sw = <<>> \/ d.sw[1].pp = <<>> \/ d.sw[1].pp[1].pol = <<>>
  /\ d.vif = <<>>
  /\ VlanListOf(TrunkResolve(d).pp) = <<>>

\* C9: such an entry is built without error, without a trunk subport, a
\* trunk policy or a trunk ingress-map binding.
C9_NoAttachmentIsNoError ==
  \A i \in 1..Len(heap) :
    NoTrunkAttachment(heap[i].if_dict) =>
      /\ heap[i].err = "ok"
      /\ heap[i].subports = <<>>
      /\ heap[i].policies = <<>>
      /\ heap[i].ingress_map_bindings = <<>>

\* Some VLAN of the entry has no policy sub-object, and every name the entry
\* refers to is in its registry.
BareVlanDict(d) ==
  LET tr == TrunkResolve(d)
      vl == VlanListOf(tr.pp)
  IN /\ tr.ipd /= <<>>
     /\ ~UnknownPolicyNamed(d)
     /\ \/ d.vif /= <<>> /\ \E k \in 1..Len(d.vif[1]) : d.vif[1][k].pol = <<>>
        \/ vl /= <<>> /\ \E k \in 1..Len(vl[1]) : vl[1][k].pol = <<>>

\* C10: a VLAN without any attachment does not make construction fail; in
\* the vif layout every vif still gets its subport.
C10_BareVlanIsNoError ==
  \A i \in 1..Len(heap) :
    BareVlanDict(heap[i].if_dict) =>
      /\ heap[i].err = "ok"
      /\ heap[i].if_dict.vif /= <<>> =>
           Len(SelectSeq(heap[i].subports, IsVlanSubport))
             = Len(heap[i].if_dict.vif[1])

\* The profile-index keys a subport's policy brings: the global profiles its
\* classes refer to and its local profiles under the subport's VLAN tag.
SubportKeys(sp) ==
  IF sp.policy = NONE THEN {}
  ELSE LET pol == Policies[sp.policy]
       IN { GlobalKey(pol.classes[c].name) :
              c \in { c \in 1..Len(pol.classes) : pol.classes[c].scope = "global" } }
          \cup { VlanKey(sp.vlan_id, pol.locals[l]) : l \in 1..Len(pol.locals) }

\* The position of the first subport that brings the key.
FirstSubport(obj, key) ==
  CHOOSE k \in 1..Len(obj.subports) :
    /\ key \in SubportKeys(obj.subports[k])
    /\ \A j \in 1..(k - 1) : key \notin SubportKeys(obj.subports[j])

\* The table holds every key once, with the indices 0..n-1 in the order the
\* keys were first met.
IndexInOrder(obj) ==
  LET idx == obj.profile_index
      n == Cardinality(DOMAIN idx)
  IN /\ DOMAIN idx = UNION { SubportKeys(obj.subports[k]) : k \in 1..Len(obj.subports) }
     /\ { idx[key] : key \in DOMAIN idx } = 0..(n - 1)
     /\ \A k1, k2 \in DOMAIN idx :
          \/ FirstSubport(obj, k1) < FirstSubport(obj, k2)
          \/ /\ FirstSubport(obj, k1) = FirstSubport(obj, k2)
             /\ k1.scope = "global" /\ k2.scope = "vlan"
          => idx[k1] < idx[k2]

C12_GlobalsLowest ==
  \A i \in Built :
    \A k1, k2 \in DOMAIN heap[i].profile_index :
      (k1.scope = "global" /\ k2.scope = "vlan") =>
        heap[i].profile_index[k1] < heap[i].profile_index[k2]

\* C13: two interfaces compare equal exactly when their raw subtrees are
\* structurally equal, whatever their type, ifindex and profile index; the
\* comparison is reflexive and symmetric.
C13_EqualityIsSubtreeEquality ==
  /\ ret.op = "eq" =>
       ((ret.val = "True") <=> (heap[ret.self].if_dict = heap[ret.idx].if_dict))
  /\ \A i, j \in Built :
       /\ InterfaceEq(heap[i], heap[i])
       /\ InterfaceEq(heap[i], heap[j]) = InterfaceEq(heap[j], heap[i])

\* Equal, although the two differ in type, cached ifindex, subports and
\* profile index.
C13_Witness ==
  /\ ret.op = "eq" /\ ret.val = "True"
  /\ heap[ret.self].if_type /= heap[ret.idx].if_type
  /\ heap[ret.self].ifindex /= heap[ret.idx].ifindex
  /\ heap[ret.self].subports /= heap[ret.idx].subports
  /\ DOMAIN heap[ret.self].profile_index /= DOMAIN heap[ret.idx].profile_index

\* C14: an ifindex access on an interface with nothing cached opens the sysfs
\* file, raises nothing and returns the stripped text, or None when the file
\* is not there, in which case nothing is cached and the next access looks
\* again; with a value cached the access returns it without opening the
\* file; a cached value never changes.
C14_IfindexCaching ==
  /\ [][ret'.op = "ifindex" =>
          LET before == heap[ret'.self]
              after == heap'[ret'.self]
          IN /\ ret'.err = "ok"
             /\ after.ifindex = ret'.val
             /\ before.ifindex = NONE =>
                  /\ ret'.looked
                  /\ ret'.val = IF sysfs[before.name] = NONE THEN NONE
                                ELSE StripNewline(sysfs[before.name])
             /\ before.ifindex /= NONE =>
                  /\ ~ret'.looked
                  /\ ret'.val = before.ifindex]_vars
  /\ [][\A i \in 1..Len(heap) :
          heap[i].ifindex /= NONE => heap'[i].ifindex = heap[i].ifindex]_vars

\* A cached value returned without a lookup after the file changed or went.
C14_Witness ==
  /\ ret.op = "ifindex" /\ ~ret.looked /\ ret.val = "3"
  /\ sysfs[Callee.name] \in {NONE, "4\n"}

\* C15: commands() produces no command addressed to an unresolved ifindex:
\* while the sysfs lookup fails the list holds no command whose ifindex is
\* None.
C15_NoCommandsWhileDeferred ==
  ret.op = "commands" =>
    \A k \in 1..Len(ret.list) : ret.list[k].ifindex /= NONE

\* The <<tag, ingress-map>> pairs an entry list names with a resolvable map.
NamedMaps(list) ==
  { <<list[k].tag, list[k].pol[1].imap>> :
      k \in { k \in 1..Len(list) : /\ list[k].pol /= <<>>
                                   /\ list[k].pol[1].imap \in IngressMaps } }

\* The trunk's pair, from whichever layout the trunk resolves in.
TrunkNamedMaps(d) ==
  LET ipd == TrunkResolve(d).ipd
  IN IF ipd /= <<>> /\ ipd[1].imap \in IngressMaps THEN {<<0, ipd[1].imap>>} ELSE {}

VifNamedMaps(d) == IF d.vif = <<>> THEN {} ELSE NamedMaps(d.vif[1])

VlanNamedMaps(d) ==
  LET vl == VlanListOf(TrunkResolve(d).pp)
  IN IF vl = <<>> THEN {} ELSE NamedMaps(vl[1])

\* Interface i holds exactly one binding for each pair of the set and none
\* else, and every ingress-map lists the same bindings of i.
BindingsAre(i, pairs) ==
  LET mine == heap[i].ingress_map_bindings
  IN /\ \A pr \in pairs : Count(mine, IngressMapBinding(i, pr[1], pr[2])) = 1
     /\ Len(mine) = Cardinality(pairs)
     /\ \A m \in IngressMaps :
          SelectSeq(mapBindings[m], LAMBDA b : b.interface = i)
            = SelectSeq(mine, LAMBDA b : b.map = m)

\* C18 as stated: the trunk and every declared VLAN, of the vif list as of
\* the hardware-switch vlan list, that names a resolvable ingress-map has
\* exactly one binding with its tag, held by the interface and by the map.
C18_BindingPerNamedMap ==
  \A i \in Built :
    BindingsAre(i, TrunkNamedMaps(heap[i].if_dict)
                     \cup VifNamedMaps(heap[i].if_dict)
                     \cup VlanNamedMaps(heap[i].if_dict))

\* C18 amended: a completed construction binds the trunk (tag 0, in either
\* layout) and the VLANs of the hardware-switch vlan list that name a
\* resolvable ingress-map, once each and on both sides; an ingress-map named
\* by a vif entry is not bound.
C18_BindingPerTrunkAndSwitchVlan ==
  \A i \in Built :
    BindingsAre(i, TrunkNamedMaps(heap[i].if_dict)
                     \cup VlanNamedMaps(heap[i].if_dict))

\* A hardware-switch interface bound for its trunk and for a VLAN.
C18_Witness ==
  /\ ret.op = "Interface" /\ ret.self \in Built
  /\ Callee.if_dict.std = <<>>
  /\ Callee.ingress_map_bindings
       = <<IngressMapBinding(ret.self, 0, "M1"),
           IngressMapBinding(ret.self, TagOf(1), "M1")>>

\* The policy of subport 0, None without a subport 0.
TrunkPolicyOf(obj) ==
  IF obj.subports /= <<>> /\ obj.subports[1].id = 0
  THEN obj.subports[1].policy ELSE NONE

VifCount(d) == IF d.vif = <<>> THEN 0 ELSE Len(d.vif[1])

\* The subports and bindings a trunk dictionary pd alone accounts for.
TrunkSubports(pd) == IF pd.qos = NONE THEN 0 ELSE 1
TrunkBindings(i, pd) ==
  IF pd.imap \in IngressMaps THEN <<IngressMapBinding(i, 0, pd.imap)>> ELSE <<>>

\* C19: with the standard policy key present the trunk policy and the trunk
\* ingress-map are the standard key's, and no subport and no binding comes
\* from the switch-group; with the standard key absent the trunk policy is
\* the one of the switch-group's port-parameters and its vlan list gives the
\* VLAN subports.
C19_StandardFirst ==
  \A i \in Built :
    LET obj == heap[i]
        d == obj.if_dict
    IN /\ d.std /= <<>> =>
            /\ TrunkPolicyOf(obj) = d.std[1].qos
            /\ Len(obj.subports) = TrunkSubports(d.std[1]) + VifCount(d)
            /\ obj.ingress_map_bindings = TrunkBindings(i, d.std[1])
       /\ (d.std = <<>> /\ d.sw /= <<>> /\ d.sw[1].pp /= <<>>) =>
            LET pp == d.sw[1].pp[1]
                pd == IF pp.pol = <<>> THEN PolDict(NONE, NONE) ELSE pp.pol[1]
                vl == IF pp.vlans = <<>> THEN <<>> ELSE pp.vlans[1]
            IN /\ TrunkPolicyOf(obj) = pd.qos
               /\ Len(obj.subports)
                    = TrunkSubports(pd) + VifCount(d)
                      + Cardinality({k \in 1..Len(vl) : vl[k].pol[1].qos /= NONE})

\* Both keys present: the trunk is the standard key's P2, the switch-group's
\* P1, M1 and vlan list left unread.
C19_Witness ==
  /\ ret.op = "Interface" /\ ret.self \in Built
  /\ Callee.if_dict.std /= <<>> /\ Callee.if_dict.sw /= <<>>
  /\ Callee.subports = <<Subport(0, 0, "P2")>>
  /\ Callee.ingress_map_bindings = <<>>

\* The interface entries of a snapshot and the policies it defines.
EntriesOf(cfg) == IF cfg.interfaces = <<>> THEN <<>> ELSE cfg.interfaces[1]
EntryNames(cfg) == {EntriesOf(cfg)[k][2].name : k \in 1..Len(EntriesOf(cfg))}

\* The snapshot has a policy section with its qos dictionary and an
\* interfaces section, and every policy an entry names is defined.
AllResolve(cfg) ==
  /\ cfg.policy /= <<>> /\ cfg.policy[1].qos /= <<>>
  /\ cfg.interfaces /= <<>>
  /\ \A k \in 1..Len(EntriesOf(cfg)) :
       LET d == EntriesOf(cfg)[k][2]
       IN d.std /= <<>> /\ d.std[1].qos \in NamesOf(cfg.policy[1].qos[1].name)

\* C17: QosConfig construction from a snapshot whose references all resolve
\* completes, and interfaces then holds exactly one Interface per
\* configured name, the one find_interface returns.
C17_OneInterfacePerName ==
  (qos.pc \in {"done", "raised"} /\ AllResolve(qos.cfg)) =>
    /\ qos.err = "ok"
    /\ {qos.interfaces[k].name : k \in 1..Len(qos.interfaces)} = EntryNames(qos.cfg)
    /\ \A n \in IfNames :
         IF n \in EntryNames(qos.cfg)
         THEN /\ DictGet(qos.interfaces, n) \in Built
              /\ heap[DictGet(qos.interfaces, n)].name = n
         ELSE DictGet(qos.interfaces, n) = 0

\* The subport ids in the order in which __init__ calls build_profile_index.
RECURSIVE IndexerOrder(_, _)
IndexerOrder(subports, k) ==
  IF k > Len(subports) THEN <<>>
  ELSE <<subports[k].id>> \o IndexerOrder(subports, k + 1)

\* C20: the profile indexer visits the subports of an interface in ascending
\* subport id order.
C20_IndexerAscendingIds ==
  \A i \in Built :
    LET order == IndexerOrder(heap[i].subports, 1)
    IN \A j, k \in 1..Len(order) : j < k => order[j] <= order[k]

\* The calls that have returned to their thread.
Returned(r) == readers[r].pc = "idle" /\ readers[r].op /= "none"

\* The number the system holds for an interface name all along.
ExternalIfindex(name) == IF name = "dp0p1" THEN "3" ELSE NONE

\* C16: with the external value fixed and threads interleaved in any way,
\* every access returns None or the external value, a cached ifindex never
\* changes, threads write no field of the graph but the ifindex, and all
\* commands() calls on an interface that saw its ifindex resolved return
\* the same list.
C16_ConcurrentReaders ==
  /\ [](\A r \in 1..NumReaders :
          Returned(r) =>
            readers[r].val \in {NONE, ExternalIfindex(heap[readers[r].obj].name)})
  /\ [](\A r1, r2 \in 1..NumReaders :
          (/\ Returned(r1) /\ Returned(r2)
           /\ readers[r1].op = "commands" /\ readers[r2].op = "commands"
           /\ readers[r1].obj = readers[r2].obj
           /\ readers[r1].val /= NONE /\ readers[r2].val /= NONE)
          => /\ readers[r1].err = readers[r2].err
             /\ readers[r1].list = readers[r2].list)
  /\ [][\A i \in 1..Len(heap) :
          /\ heap[i].ifindex /= NONE => heap'[i].ifindex = heap[i].ifindex
          /\ heap'[i] = [heap[i] EXCEPT !.ifindex = heap'[i].ifindex]]_vars
  /\ [][readers' /= readers =>
          /\ Len(heap') = Len(heap)
          /\ polIfs' = polIfs
          /\ mapBindings' = mapBindings]_vars

\* Two threads that both found nothing cached and both read the file, one
\* for ifindex and one for commands(), and got the same number.
C16_Witness ==
  /\ Returned(1) /\ Returned(2)
  /\ readers[1].obj = readers[2].obj
  /\ readers[1].looked /\ readers[2].looked
  /\ readers[1].op = "ifindex" /\ readers[2].op = "commands"
  /\ readers[1].val = "3" /\ readers[2].val = "3"
  /\ readers[2].list /= <<>>

\* C25: a QosConfig built from a snapshot without the policy section is
\* complete at once with its five registries empty, whatever the interfaces
\* section holds, and its construction creates no Interface; find_interface
\* then returns None and deferred_interfaces the empty list.
C25_NoPolicySection ==
  /\ [](qos.pc /= "none" /\ qos.cfg.policy = <<>> =>
          /\ qos.pc = "done" /\ qos.err = "ok"
          /\ qos.action_groups = {} /\ qos.mark_maps = {}
          /\ qos.global_profiles = {} /\ qos.policies = {}
          /\ qos.interfaces = <<>>
          /\ ret.op = "find_interface" => ret.self = 0
          /\ ret.op = "deferred_interfaces" => ret.list = <<>>)
  /\ [][qos' /= qos /\ qos'.cfg.policy = <<>> =>
          /\ heap' = heap
          /\ polIfs' = polIfs
          /\ mapBindings' = mapBindings]_vars

\* find_interface for a name the snapshot's interfaces section configures.
C25_Witness ==
  /\ qos.pc = "done" /\ qos.cfg.policy = <<>>
  /\ ret.op = "find_interface" /\ ret.self = 0
  /\ ret.val \in EntryNames(qos.cfg)

\* C21: convert_pcp_map of an array of n values returns n entries, the i-th
\* with pcp i and the traffic-class and queue of the i-th value, and a
\* reverse map in which every pcp 0..n-1 appears exactly once, under the
\* (traffic-class, queue) of its value.
C21_PcpMapConverted ==
  (opm.fn = "convert_pcp_map" /\ opm.arg /= <<>>) =>
    LET n == Len(opm.arg[1])
        res == opm.res
    IN /\ res.err = "ok"
       /\ Len(res.out) = n
       /\ \A i \in 1..n :
            /\ res.out[i].cp = i - 1
            /\ res.out[i].tc = opm.arg[1][i] % 4
            /\ res.out[i].queue = (opm.arg[1][i] \div 4) % 8
            /\ Count(res.rev[res.out[i].tc + 1][res.out[i].queue + 1], i - 1) = 1

\* C23: get_sysfs_value returns the stripped text of the sysfs file, and the
\* empty string when the file does not exist; convert_groups then gives
\* every group of an interface without the file the ifindex "".
C23_EmptyWhenAbsent ==
  /\ opm.fn = "get_sysfs_value" =>
       opm.res.val = (CASE sysfs[opm.arg] = NONE -> ""
                        [] sysfs[opm.arg] = "3\n" -> "3"
                        [] sysfs[opm.arg] = "4\n" -> "4")
  /\ (opm.fn = "convert_groups" /\ sysfs[opm.arg.ifname] = NONE) =>
       \A k \in 1..Len(opm.res.out) : opm.res.out[k].ifindex = ""

\* A counter modulo 2^32: its two low limbs.
Mod32(counter) == <<counter[1], counter[2], 0>>

\* C22: in the output of convert_tcs every 32-bit counter of a traffic class
\* is the 64-bit counter of the same name modulo 2^32, and dropped-64 is
\* dropped - random_drop.
C22_LegacyCountersTruncate ==
  opm.fn = "convert_tcs" =>
    \A k \in 1..Len(opm.res.out) :
      LET tc == opm.res.out[k]
      IN /\ tc.packets = Mod32(tc.packets_64)
         /\ tc.bytes = Mod32(tc.bytes_64)
         /\ tc.dropped = Mod32(tc.dropped_64)
         /\ tc.random_drop = Mod32(tc.random_drop_64)
         /\ tc.dropped_64 = Sub(opm.arg[k].dropped, opm.arg[k].random_drop)

\* The queue at position q of traffic class tc is in the list of the
\* converted pipe res, tagged q.
QueueListed(res, tc, q) ==
  \E t \in 1..Len(res.queues_list) :
    /\ res.queues_list[t].traffic_class = tc
    /\ \E k \in 1..Len(res.queues_list[t].queue_statistics) :
         res.queues_list[t].queue_statistics[k].queue = q

\* C24: a pipe with a dscp2q map has its queue statistics built from the
\* DSCP reverse map under "dscp-values", a pipe without one from the PCP
\* reverse map under "pcp-values"; every queue a code point maps to is in
\* the list under its position.
C24_MapChoice ==
  opm.fn = "convert_pipe" =>
    LET pipe_in == opm.arg.pipe_in
        res == opm.res
        map == IF pipe_in.dscp2q /= <<>> THEN pipe_in.dscp2q
               ELSE pipe_in.pcp2q
    IN /\ res.err = "ok"
       /\ res.values_key = IF pipe_in.dscp2q /= <<>> THEN "dscp-values"
                           ELSE "pcp-values"
       /\ map /= <<>> =>
            \A i \in 1..Len(map[1]) :
              QueueListed(res, map[1][i] % 4, (map[1][i] \div 4) % 8)

====
